---- MODULE Spec2Model ----
(***************************************************************************)
(* AES Integer Counter Mode engine on top of the OpenSSL EVP primitive     *)
(* (crypto/cipher/aes_icm_ossl.c).  One cipher instance owned by one       *)
(* caller: the caller's srtp_cipher_t pointer, the heap blocks behind it,  *)
(* the srtp_aes_icm_ctx_t fields and the embedded EVP_CIPHER_CTX.          *)
(* Octet k of a C array is element k+1 of the sequence that models it.     *)
(***************************************************************************)
EXTENDS Integers, Sequences, FiniteSets, TLC

\* ------------------------------------------------------------------------
\* Program constants
\* ------------------------------------------------------------------------
SRTP_SALT_SIZE ==
    14
SRTP_AES_128_KEYSIZE ==
    16
SRTP_AES_192_KEYSIZE ==
    24
SRTP_AES_256_KEYSIZE ==
    32
SRTP_AES_128_KEYSIZE_WSALT ==
    SRTP_AES_128_KEYSIZE + SRTP_SALT_SIZE
SRTP_AES_192_KEYSIZE_WSALT ==
    SRTP_AES_192_KEYSIZE + SRTP_SALT_SIZE
SRTP_AES_256_KEYSIZE_WSALT ==
    SRTP_AES_256_KEYSIZE + SRTP_SALT_SIZE
V128_OCTETS ==
    16
KEY_OCTETS ==
    32

srtp_err_status_ok ==
    "srtp_err_status_ok"
srtp_err_status_fail ==
    "srtp_err_status_fail"
srtp_err_status_bad_param ==
    "srtp_err_status_bad_param"
srtp_err_status_alloc_fail ==
    "srtp_err_status_alloc_fail"
srtp_err_status_cipher_fail ==
    "srtp_err_status_cipher_fail"

NULL ==
    "NULL"

\* ------------------------------------------------------------------------
\* Bounds of the exploration
\* ------------------------------------------------------------------------
\* octets in the caller's data buffer
BufLen ==
    2
\* keystream octets one seeding of the primitive may produce
MaxNum ==
    2

\* ------------------------------------------------------------------------
\* Octet strings
\* ------------------------------------------------------------------------
RECURSIVE XorBits(_, _, _)
XorBits(a, b, n) ==
    IF n = 0 THEN 0
    ELSE (((a % 2) + (b % 2)) % 2) + (2 * XorBits(a \div 2, b \div 2, n - 1))

\* the exclusive or of two 4-bit values, tabulated
XorNibble ==
    [a \in 0..15 |-> [b \in 0..15 |-> XorBits(a, b, 4)]]

\* the exclusive or of two octets
XorOctet(a, b) ==
    (16 * XorNibble[a \div 16][b \div 16]) + XorNibble[a % 16][b % 16]

Zeros(n) ==
    [i \in 1..n |-> 0]

\* v128_xor(z, x, y): z = x ^ y over all sixteen octets
v128_xor(x, y) ==
    [i \in 1..V128_OCTETS |-> XorOctet(x[i], y[i])]

\* memcpy(dst + at, src + from, n)
CopyOctets(dst, at, src, from, n) ==
    [i \in 1..Len(dst) |->
        IF i > at /\ i <= at + n THEN src[from + (i - at)] ELSE dst[i]]

\* ------------------------------------------------------------------------
\* Inputs the callers are drawn from
\* ------------------------------------------------------------------------
\* key_len arguments given to alloc: the three classes and near misses
KeyLenArgs ==
    {16, 29, 30, 32, 38, 46, 47}

\* the key of the known-answer case of each class
KatKey(key_len) ==
    CASE key_len = SRTP_AES_128_KEYSIZE_WSALT ->
           << 43, 126, 21, 22, 40, 174, 210, 166, 171, 247, 21, 136, 9, 207,
              79, 60, 240, 241, 242, 243, 244, 245, 246, 247, 248, 249, 250,
              251, 252, 253 >>
      [] key_len = SRTP_AES_192_KEYSIZE_WSALT ->
           << 234, 178, 52, 118, 78, 81, 123, 45, 61, 22, 13, 88, 125, 140,
              134, 33, 151, 64, 246, 95, 153, 182, 188, 247, 240, 241, 242,
              243, 244, 245, 246, 247, 248, 249, 250, 251, 252, 253 >>
      [] key_len = SRTP_AES_256_KEYSIZE_WSALT ->
           << 87, 248, 47, 227, 97, 63, 209, 112, 168, 94, 201, 60, 64, 177,
              240, 146, 46, 196, 203, 13, 192, 37, 181, 130, 114, 20, 124,
              196, 56, 148, 74, 152, 240, 241, 242, 243, 244, 245, 246, 247,
              248, 249, 250, 251, 252, 253 >>
      [] OTHER -> Zeros(key_len)

\* the nonce of the known-answer case of each class
KatNonce(key_len) ==
    CASE key_len = SRTP_AES_128_KEYSIZE_WSALT ->
           << 0, 0, 0, 0, 0, 0, 0, 0, 0, 0, 0, 0, 0, 0, 0, 0 >>
      [] key_len = SRTP_AES_192_KEYSIZE_WSALT ->
           << 0, 0, 0, 0, 0, 0, 0, 0, 0, 0, 0, 0, 0, 0, 0, 0 >>
      [] key_len = SRTP_AES_256_KEYSIZE_WSALT ->
           << 0, 0, 0, 0, 0, 0, 0, 0, 0, 0, 0, 0, 0, 0, 0, 0 >>
      [] OTHER -> << >>

\* the plaintext of the known-answer case of each class
KatPlaintext(key_len) ==
    CASE key_len = SRTP_AES_128_KEYSIZE_WSALT ->
           << 0, 0, 0, 0, 0, 0, 0, 0, 0, 0, 0, 0, 0, 0, 0, 0, 0, 0, 0, 0,
              0, 0, 0, 0, 0, 0, 0, 0, 0, 0, 0, 0 >>
      [] key_len = SRTP_AES_192_KEYSIZE_WSALT ->
           << 0, 0, 0, 0, 0, 0, 0, 0, 0, 0, 0, 0, 0, 0, 0, 0, 0, 0, 0, 0,
              0, 0, 0, 0, 0, 0, 0, 0, 0, 0, 0, 0 >>
      [] key_len = SRTP_AES_256_KEYSIZE_WSALT ->
           << 0, 0, 0, 0, 0, 0, 0, 0, 0, 0, 0, 0, 0, 0, 0, 0, 0, 0, 0, 0,
              0, 0, 0, 0, 0, 0, 0, 0, 0, 0, 0, 0 >>
      [] OTHER -> << >>

\* the ciphertext the known-answer case of each class expects
KatCiphertext(key_len) ==
    CASE key_len = SRTP_AES_128_KEYSIZE_WSALT ->
           << 224, 62, 173, 9, 53, 201, 94, 128, 225, 102, 177, 109, 217,
              43, 78, 180, 210, 53, 19, 22, 43, 2, 208, 247, 42, 67, 162,
              254, 74, 95, 151, 171 >>
      [] key_len = SRTP_AES_192_KEYSIZE_WSALT ->
           << 53, 9, 108, 186, 70, 16, 2, 141, 193, 181, 117, 3, 128, 76,
              227, 124, 93, 233, 134, 41, 29, 204, 225, 97, 213, 22, 94,
              196, 86, 143, 92, 154 >>
      [] key_len = SRTP_AES_256_KEYSIZE_WSALT ->
           << 146, 189, 210, 138, 147, 195, 245, 37, 17, 198, 119, 208,
              139, 85, 21, 164, 157, 167, 27, 35, 120, 168, 84, 246, 112,
              80, 117, 109, 237, 22, 91, 172 >>
      [] OTHER -> << >>

\* a second key+salt of the same length, every octet non-zero
AltKey(key_len) ==
    [i \in 1..key_len |-> 255 - i]

\* key arguments given to context_init for a context of key_len octets; the
\* second key is tried on the AES-128 class
KeyArgs(key_len) ==
    IF key_len = SRTP_AES_128_KEYSIZE_WSALT
    THEN {KatKey(key_len), AltKey(key_len)}
    ELSE {KatKey(key_len)}

\* 16-octet iv arguments: the known-answer nonce (all zero) and one whose
\* octets, the last two included, are all non-zero
IvArgs ==
    {Zeros(V128_OCTETS), [i \in 1..V128_OCTETS |-> (15 * i) + 1]}

DirArgs ==
    {"srtp_direction_encrypt", "srtp_direction_decrypt"}

\* data buffers: all zero (the known-answer plaintext) and a patterned one
BufArgs ==
    {Zeros(BufLen), [i \in 1..BufLen |-> 165 - i]}

\* ------------------------------------------------------------------------
\* The external CTR primitive (OpenSSL EVP), as the code uses it.
\* An EVP_CIPHER_CTX is {cipher, key, iv, num, pend}: the selected variant,
\* the key and starting counter block it was seeded with, the number of
\* keystream octets produced since the seeding, and input octets taken but
\* not yet written out (flushed by the finalize step).
\* ------------------------------------------------------------------------
NullCtx ==
    [cipher |-> NULL, key |-> << >>, iv |-> Zeros(V128_OCTETS), num |-> 0,
     pend |-> << >>]

EVP_CIPHER_key_length(evp) ==
    CASE evp = "EVP_aes_128_ctr" -> SRTP_AES_128_KEYSIZE
      [] evp = "EVP_aes_192_ctr" -> SRTP_AES_192_KEYSIZE
      [] evp = "EVP_aes_256_ctr" -> SRTP_AES_256_KEYSIZE
      [] OTHER -> 0

\* EVP_CIPHER_CTX_init: clears the handle
EVP_CIPHER_CTX_init(ctx) ==
    NullCtx

\* EVP_CIPHER_CTX_cleanup: releases the handle and clears it
EVP_CIPHER_CTX_cleanup(ctx) ==
    NullCtx

\* EVP_EncryptInit_ex(ctx, evp, NULL, key, iv): on success the handle is
\* seeded with the variant, the first key_length octets at key and the
\* counter block at iv; on failure the handle holds no usable cipher
EVP_EncryptInit_ex(ctx, evp, key, iv, ok) ==
    IF ok
    THEN [cipher |-> evp, key |-> SubSeq(key, 1, EVP_CIPHER_key_length(evp)),
          iv |-> iv, num |-> 0, pend |-> << >>]
    ELSE NullCtx

\* The AES block transform (FIPS-197) behind EVP_aes_128_ctr,
\* EVP_aes_192_ctr and EVP_aes_256_ctr.  A word is four octets; octet r of
\* column c of the state (both from 0) is element 4c + r + 1.
\* the S-box: entry a + 1 for the octet a
AesSBox ==
    <<
       99, 124, 119, 123, 242, 107, 111, 197, 48, 1, 103, 43,
       254, 215, 171, 118, 202, 130, 201, 125, 250, 89, 71, 240,
       173, 212, 162, 175, 156, 164, 114, 192, 183, 253, 147, 38,
       54, 63, 247, 204, 52, 165, 229, 241, 113, 216, 49, 21,
       4, 199, 35, 195, 24, 150, 5, 154, 7, 18, 128, 226,
       235, 39, 178, 117, 9, 131, 44, 26, 27, 110, 90, 160,
       82, 59, 214, 179, 41, 227, 47, 132, 83, 209, 0, 237,
       32, 252, 177, 91, 106, 203, 190, 57, 74, 76, 88, 207,
       208, 239, 170, 251, 67, 77, 51, 133, 69, 249, 2, 127,
       80, 60, 159, 168, 81, 163, 64, 143, 146, 157, 56, 245,
       188, 182, 218, 33, 16, 255, 243, 210, 205, 12, 19, 236,
       95, 151, 68, 23, 196, 167, 126, 61, 100, 93, 25, 115,
       96, 129, 79, 220, 34, 42, 144, 136, 70, 238, 184, 20,
       222, 94, 11, 219, 224, 50, 58, 10, 73, 6, 36, 92,
       194, 211, 172, 98, 145, 149, 228, 121, 231, 200, 55, 109,
       141, 213, 78, 169, 108, 86, 244, 234, 101, 122, 174, 8,
       186, 120, 37, 46, 28, 166, 180, 198, 232, 221, 116, 31,
       75, 189, 139, 138, 112, 62, 181, 102, 72, 3, 246, 14,
       97, 53, 87, 185, 134, 193, 29, 158, 225, 248, 152, 17,
       105, 217, 142, 148, 155, 30, 135, 233, 206, 85, 40, 223,
       140, 161, 137, 13, 191, 230, 66, 104, 65, 153, 45, 15,
       176, 84, 187, 22
    >>

\* multiplication by x and by x + 1 in GF(2^8) modulo x^8 + x^4 + x^3 + x + 1
AesMul2(a) ==
    IF a < 128 THEN 2 * a ELSE XorOctet((2 * a) % 256, 27)

AesMul3(a) ==
    XorOctet(AesMul2(a), a)

AesXorWord(a, b) ==
    SubSeq([i \in 1..4 |-> XorOctet(a[i], b[i])], 1, 4)

AesSubWord(w) ==
    SubSeq([i \in 1..4 |-> AesSBox[w[i] + 1]], 1, 4)

AesRotWord(w) ==
    << w[2], w[3], w[4], w[1] >>

AesRcon ==
    << 1, 2, 4, 8, 16, 32, 64, 128, 27, 54 >>

\* the first n words of key
RECURSIVE AesWords(_, _)
AesWords(key, n) ==
    IF n = 0 THEN << >>
    ELSE Append(AesWords(key, n - 1), SubSeq(key, (4 * n) - 3, 4 * n))

\* the key schedule: w holds the words so far, nk is the key length in
\* words, total the number of words wanted
RECURSIVE AesKeyExpansion(_, _, _)
AesKeyExpansion(w, nk, total) ==
    IF Len(w) >= total THEN w
    ELSE LET i    == Len(w)
             prev == w[i]
             temp == IF i % nk = 0
                     THEN AesXorWord(AesSubWord(AesRotWord(prev)),
                                     << AesRcon[i \div nk], 0, 0, 0 >>)
                     ELSE IF nk > 6 /\ i % nk = 4 THEN AesSubWord(prev)
                     ELSE prev
         IN AesKeyExpansion(Append(w, AesXorWord(w[(i - nk) + 1], temp)),
                            nk, total)

\* the schedule of a key of nk words: 4 * (nk + 7) words, one round key
\* for each of the nk + 6 rounds and one for the initial addition
AesKeySchedule(key) ==
    AesKeyExpansion(AesWords(key, Len(key) \div 4), Len(key) \div 4,
                    Len(key) + 28)

AesRoundKey(w, r) ==
    w[(4 * r) + 1] \o w[(4 * r) + 2] \o w[(4 * r) + 3] \o w[(4 * r) + 4]

AesAddRoundKey(s, k) ==
    SubSeq([i \in 1..V128_OCTETS |-> XorOctet(s[i], k[i])], 1, V128_OCTETS)

AesSubBytes(s) ==
    SubSeq([i \in 1..V128_OCTETS |-> AesSBox[s[i] + 1]], 1, V128_OCTETS)

\* row r is rotated left by r columns
AesShiftRows(s) ==
    SubSeq([i \in 1..V128_OCTETS |->
              LET r == (i - 1) % 4
                  c == (i - 1) \div 4
              IN s[(4 * ((c + r) % 4)) + r + 1]], 1, V128_OCTETS)

\* row r (from 0) of the column a times the MixColumns matrix: the rows of
\* the matrix are 2 3 1 1 rotated right by r
AesMixColumn(a, r) ==
    XorOctet(XorOctet(AesMul2(a[r + 1]), AesMul3(a[((r + 1) % 4) + 1])),
             XorOctet(a[((r + 2) % 4) + 1], a[((r + 3) % 4) + 1]))

AesMixColumns(s) ==
    SubSeq([i \in 1..V128_OCTETS |->
              AesMixColumn(SubSeq(s, (4 * ((i - 1) \div 4)) + 1,
                                  (4 * ((i - 1) \div 4)) + 4),
                           (i - 1) % 4)], 1, V128_OCTETS)

\* one round on the state s under the round key k; the last round has no
\* MixColumns
AesRound(s, k, final) ==
    AesAddRoundKey(IF final THEN AesShiftRows(AesSubBytes(s))
                   ELSE AesMixColumns(AesShiftRows(AesSubBytes(s))), k)

\* rounds r..nr on the state s under the key schedule w
RECURSIVE AesRounds(_, _, _, _)
AesRounds(s, w, r, nr) ==
    IF r > nr \/ Len(s) # V128_OCTETS THEN s
    ELSE AesRounds(AesRound(s, AesRoundKey(w, r), r = nr), w, r + 1, nr)

\* the cipher of a block under a key schedule of 4 * (nr + 1) words
AesCipher(w, block) ==
    AesRounds(AesAddRoundKey(block, AesRoundKey(w, 0)), w, 1,
              (Len(w) \div 4) - 1)

\* the block transform: a 16-octet block under a 16, 24 or 32 octet key
AesEncrypt(key, block) ==
    AesCipher(AesKeySchedule(key), block)

\* the counter block plus one, as a 128-bit big-endian integer (ctr128_inc)
RECURSIVE CtrInc(_, _)
CtrInc(block, i) ==
    IF i = 0 THEN block
    ELSE IF block[i] = 255 THEN CtrInc([block EXCEPT ![i] = 0], i - 1)
    ELSE [block EXCEPT ![i] = block[i] + 1]

RECURSIVE CtrAdd(_, _)
CtrAdd(block, k) ==
    IF k = 0 THEN block ELSE CtrAdd(CtrInc(block, V128_OCTETS), k - 1)

\* the keys and the counter blocks the callers' inputs lead to: the keys
\* given to context_init and the all-zero key of a context never
\* initialized; the offsets of those keys XOR the iv arguments, and the
\* block that follows each
AesKnownKeys ==
    LET keys == UNION {KeyArgs(n) : n \in {SRTP_AES_128_KEYSIZE_WSALT,
                                          SRTP_AES_192_KEYSIZE_WSALT,
                                          SRTP_AES_256_KEYSIZE_WSALT}}
    IN {SubSeq(k, 1, Len(k) - SRTP_SALT_SIZE) : k \in keys}
       \cup {Zeros(SRTP_AES_128_KEYSIZE), Zeros(SRTP_AES_192_KEYSIZE),
             Zeros(SRTP_AES_256_KEYSIZE)}

AesKnownBlocks ==
    LET keys == UNION {KeyArgs(n) : n \in {SRTP_AES_128_KEYSIZE_WSALT,
                                          SRTP_AES_192_KEYSIZE_WSALT,
                                          SRTP_AES_256_KEYSIZE_WSALT}}
        offs == {SubSeq(k, (Len(k) - SRTP_SALT_SIZE) + 1, Len(k))
                   \o << 0, 0 >> : k \in keys} \cup {Zeros(V128_OCTETS)}
        b0   == {v128_xor(o, iv) : o \in offs, iv \in IvArgs}
    IN b0 \cup {CtrAdd(b, 1) : b \in b0}

\* the block transform tabulated over those keys and blocks
AesKnown ==
    [k \in AesKnownKeys |-> [b \in AesKnownBlocks |-> AesEncrypt(k, b)]]

\* the keystream block of a key and a counter block
AesBlock(key, block) ==
    IF key \in AesKnownKeys /\ block \in AesKnownBlocks
    THEN AesKnown[key][block]
    ELSE AesEncrypt(key, block)

\* Octet n (from 0) of the CTR keystream generated under key from the
\* starting counter block iv: octet n % 16 of the block transform of the
\* counter block iv + n \div 16
Keystream(key, iv, n) ==
    AesBlock(key, CtrAdd(iv, n \div V128_OCTETS))[(n % V128_OCTETS) + 1]

\* EVP_EncryptUpdate(ctx, out, &outl, in, inl) with in = out: writes outl
\* octets, the input XOR the next keystream octets; input octets it took
\* without writing them stay pending in the handle
EVP_EncryptUpdate(ctx, b, inl, outl) ==
    [ctx |-> [ctx EXCEPT !.num = ctx.num + outl,
                         !.pend = SubSeq(b, outl + 1, inl)],
     buf |-> [i \in 1..Len(b) |->
                IF i <= outl
                THEN XorOctet(b[i], Keystream(ctx.key, ctx.iv, ctx.num + i - 1))
                ELSE b[i]]]

\* EVP_EncryptFinal_ex(ctx, out, &outl): flushes outl pending octets to the
\* start of out
EVP_EncryptFinal_ex(ctx, b, outl) ==
    [ctx |-> [ctx EXCEPT !.num = ctx.num + outl, !.pend = << >>],
     buf |-> [i \in 1..Len(b) |->
                IF i <= outl
                THEN XorOctet(ctx.pend[i],
                              Keystream(ctx.key, ctx.iv, ctx.num + i - 1))
                ELSE b[i]]]

\* what the update and the finalize step of one run over inl input octets
\* may do: uok/fok tell whether each succeeds; the update reports all the
\* octets (a stream primitive) or one less (the last octet held back); the
\* finalize step reports up to the octets held back
PrimitiveOutcomes(inl) ==
    LET ulens == {inl} \cup (IF inl > 0 THEN {inl - 1} ELSE {}) IN
    {[uok |-> FALSE, ulen |-> 0, fok |-> FALSE, flen |-> 0]}
    \cup {[uok |-> TRUE, ulen |-> u, fok |-> FALSE, flen |-> 0] : u \in ulens}
    \cup UNION {{[uok |-> TRUE, ulen |-> u, fok |-> TRUE, flen |-> f] :
                    f \in 0..(inl - u)} : u \in ulens}

\* ------------------------------------------------------------------------
\* State
\* ------------------------------------------------------------------------
VARIABLES
    cptr,      \* the caller's srtp_cipher_t *: "indeterminate", NULL, "cipher"
    heap,      \* live srtp_crypto_alloc blocks, a subset of {"cipher", "icm"}
    cipher,    \* contents of the srtp_cipher_t block
    icm,       \* contents of the srtp_aes_icm_ctx_t block
    buf,       \* the caller's data buffer
    enc_len,   \* the caller's in/out length
    last,      \* the last call: arguments, status, what it did
    inited,    \* context_init was called since the allocation
    ivset,     \* set_iv succeeded since the allocation and the last init
    crashed,   \* the process was terminated by a fault
    args,      \* the key of the latest context_init, the iv of the latest
               \* set_iv, whether an earlier set_iv had another iv
    rt         \* the scripted callers (round trip, known-answer test): the
               \* position in the script and what the caller remembers

vars ==
    << cptr, heap, cipher, icm, buf, enc_len, last, inited, ivset, crashed,
       args, rt >>

ZeroCipher ==
    [state |-> NULL, algorithm |-> 0, type |-> NULL, key_len |-> 0]

ZeroIcm ==
    [key |-> Zeros(KEY_OCTETS), key_size |-> 0,
     counter |-> Zeros(V128_OCTETS), offset |-> Zeros(V128_OCTETS),
     ctx |-> NullCtx]

NoSeed ==
    [evp |-> NULL, key |-> << >>, iv |-> << >>]

NoCall ==
    [op |-> "none", status |-> srtp_err_status_ok, arg |-> NULL,
     dir |-> NULL, allocs |-> 0, got |-> 0, wrote |-> FALSE,
     failed |-> "none", steps |-> << >>,
     freedctx |-> ZeroIcm, seed |-> NoSeed, num |-> 0, haskey |-> FALSE,
     inl |-> 0, ulen |-> 0, flen |-> 0, afterok |-> FALSE, ub |-> FALSE,
     reads |-> {}, writes |-> {}]

\* no context_init and no set_iv yet on the context
NoArgs ==
    [key |-> << >>, iv |-> << >>, other |-> FALSE]

\* a scripted caller before its first call
RtIdle ==
    [step |-> "idle", iv |-> << >>, plain |-> << >>, inl |-> 0,
     entry |-> NULL]

Init ==
    /\ cptr = "indeterminate"
    /\ heap = {}
    /\ cipher = ZeroCipher
    /\ icm = ZeroIcm
    /\ buf = Zeros(BufLen)
    /\ enc_len = 0
    /\ last = NoCall
    /\ inited = FALSE
    /\ ivset = FALSE
    /\ crashed = FALSE
    /\ args = NoArgs
    /\ rt = RtIdle

\* the caller holds a context returned by a successful alloc
Live ==
    cptr = "cipher" /\ "cipher" \in heap

\* ------------------------------------------------------------------------
\* srtp_aes_icm_openssl_alloc
\* ------------------------------------------------------------------------
\* the key_len test with the AES-256 length compared without its salt
valid_key_len_nosalt(key_len) ==
    ~ (/\ key_len # SRTP_AES_128_KEYSIZE_WSALT
       /\ key_len # SRTP_AES_192_KEYSIZE_WSALT
       /\ key_len # SRTP_AES_256_KEYSIZE)

\* the key_len test at the head of alloc
valid_key_len(key_len) ==
    ~ (/\ key_len # SRTP_AES_128_KEYSIZE_WSALT
       /\ key_len # SRTP_AES_192_KEYSIZE_WSALT
       /\ key_len # SRTP_AES_256_KEYSIZE_WSALT)

\* the switch on key_len with the AES-192 case given the AES-256 key size
alloc_params_192_as_256(key_len) ==
    CASE key_len = SRTP_AES_128_KEYSIZE_WSALT ->
           [algorithm |-> "SRTP_AES_128_ICM", type |-> "srtp_aes_icm",
            key_size |-> SRTP_AES_128_KEYSIZE]
      [] key_len = SRTP_AES_192_KEYSIZE_WSALT ->
           [algorithm |-> "SRTP_AES_192_ICM", type |-> "srtp_aes_icm_192",
            key_size |-> SRTP_AES_256_KEYSIZE]
      [] key_len = SRTP_AES_256_KEYSIZE_WSALT ->
           [algorithm |-> "SRTP_AES_256_ICM", type |-> "srtp_aes_icm_256",
            key_size |-> SRTP_AES_256_KEYSIZE]
      [] OTHER ->
           [algorithm |-> 0, type |-> NULL, key_size |-> 0]

\* the switch on key_len: algorithm, type and key_size of the new context
alloc_params(key_len) ==
    CASE key_len = SRTP_AES_128_KEYSIZE_WSALT ->
           [algorithm |-> "SRTP_AES_128_ICM", type |-> "srtp_aes_icm",
            key_size |-> SRTP_AES_128_KEYSIZE]
      [] key_len = SRTP_AES_192_KEYSIZE_WSALT ->
           [algorithm |-> "SRTP_AES_192_ICM", type |-> "srtp_aes_icm_192",
            key_size |-> SRTP_AES_192_KEYSIZE]
      [] key_len = SRTP_AES_256_KEYSIZE_WSALT ->
           [algorithm |-> "SRTP_AES_256_ICM", type |-> "srtp_aes_icm_256",
            key_size |-> SRTP_AES_256_KEYSIZE]
      [] OTHER ->
           [algorithm |-> 0, type |-> NULL, key_size |-> 0]

\* the heap after the second allocation failed, the first block not freed
alloc_fail_rollback_leak(h) ==
    h

\* the heap after the second allocation failed: the first block is freed
alloc_fail_rollback(h) ==
    h \ {"cipher"}

\* what the two srtp_crypto_alloc calls of one alloc may do: a1 and a2 tell
\* whether the first and the second succeed (the second is not reached when
\* the first fails, and neither when key_len is rejected)
AllocOutcomes(key_len) ==
    IF ~ valid_key_len(key_len)
    THEN {[a1 |-> TRUE, a2 |-> TRUE]}
    ELSE {[a1 |-> FALSE, a2 |-> TRUE], [a1 |-> TRUE, a2 |-> FALSE],
          [a1 |-> TRUE, a2 |-> TRUE]}

\* alloc(&cptr, key_len, tlen), the two srtp_crypto_alloc calls doing o
alloc(key_len, o) ==
    /\ ~ crashed
    /\ ~ Live
    /\ LET a1   == o.a1
           a2   == o.a2
           call == [NoCall EXCEPT !.op = "alloc", !.arg = key_len]
       IN
       IF ~ valid_key_len(key_len)
       THEN /\ last' = [call EXCEPT !.status = srtp_err_status_bad_param]
            /\ UNCHANGED << cptr, heap, cipher, icm, inited, ivset, args >>
       ELSE IF ~ a1
       THEN /\ cptr' = NULL
            /\ last' = [call EXCEPT !.status = srtp_err_status_alloc_fail,
                                    !.allocs = 1, !.got = 0,
                                    !.wrote = TRUE]
            /\ UNCHANGED << heap, cipher, icm, inited, ivset, args >>
       ELSE IF ~ a2
       THEN /\ cptr' = NULL
            /\ heap' = alloc_fail_rollback(heap \cup {"cipher"})
            /\ cipher' = ZeroCipher
            /\ last' = [call EXCEPT !.status = srtp_err_status_alloc_fail,
                                    !.allocs = 2, !.got = 1,
                                    !.wrote = TRUE]
            /\ UNCHANGED << icm, inited, ivset, args >>
       ELSE LET p == alloc_params(key_len) IN
            /\ cptr' = "cipher"
            /\ heap' = heap \cup {"cipher", "icm"}
            /\ cipher' = [state |-> "icm", algorithm |-> p.algorithm,
                          type |-> p.type, key_len |-> key_len]
            /\ icm' = [ZeroIcm EXCEPT !.key_size = p.key_size,
                                      !.ctx = EVP_CIPHER_CTX_init(ZeroIcm.ctx)]
            /\ inited' = FALSE
            /\ ivset' = FALSE
            /\ args' = NoArgs
            /\ last' = [call EXCEPT !.status = srtp_err_status_ok,
                                    !.allocs = 2, !.got = 2,
                                    !.wrote = TRUE]
    /\ UNCHANGED << buf, enc_len, crashed >>

srtp_aes_icm_openssl_alloc ==
    /\ \E key_len \in KeyLenArgs :
       \E o \in AllocOutcomes(key_len) : alloc(key_len, o)
    /\ UNCHANGED rt

\* ------------------------------------------------------------------------
\* srtp_aes_icm_openssl_dealloc
\* ------------------------------------------------------------------------
\* the status returned when a null pointer is not told apart
dealloc_status_ok(c) ==
    srtp_err_status_ok

\* the status returned for the pointer c
dealloc_status(c) ==
    IF c = NULL THEN srtp_err_status_bad_param ELSE srtp_err_status_ok

\* the context freed as it is, without octet_string_set_to_zero
dealloc_zeroize_skip(c) ==
    c

\* octet_string_set_to_zero over the whole srtp_aes_icm_ctx_t
dealloc_zeroize(c) ==
    [key |-> Zeros(KEY_OCTETS), key_size |-> 0,
     counter |-> Zeros(V128_OCTETS), offset |-> Zeros(V128_OCTETS),
     ctx |-> NullCtx]

\* pointers the caller may hand to dealloc
DeallocArgs ==
    {NULL} \cup (IF Live THEN {cptr} ELSE {})

\* dealloc(c); freedctx is what the srtp_aes_icm_ctx_t block holds at the
\* moment it is given to srtp_crypto_free
srtp_aes_icm_openssl_dealloc ==
    /\ ~ crashed
    /\ \E c \in DeallocArgs :
         LET call == [NoCall EXCEPT !.op = "dealloc", !.arg = c,
                                    !.status = dealloc_status(c),
                                    !.haskey = (icm.key # Zeros(KEY_OCTETS))]
         IN
         IF c = NULL
         THEN /\ last' = call
              /\ UNCHANGED << heap, cipher, icm, inited, ivset, args >>
         ELSE IF cipher.state # NULL
         THEN LET released == [icm EXCEPT !.ctx = EVP_CIPHER_CTX_cleanup(icm.ctx)]
                  zeroed   == dealloc_zeroize(released)
              IN
              /\ icm' = zeroed
              /\ heap' = heap \ {"icm", "cipher"}
              /\ last' = [call EXCEPT
                            !.steps = << "EVP_CIPHER_CTX_cleanup",
                                         "octet_string_set_to_zero",
                                         "srtp_crypto_free(ctx)",
                                         "srtp_crypto_free(c)" >>,
                            !.freedctx = zeroed]
              /\ inited' = FALSE
              /\ ivset' = FALSE
              /\ args' = NoArgs
              /\ UNCHANGED cipher
         ELSE /\ heap' = heap \ {"cipher"}
              /\ last' = [call EXCEPT !.steps = << "srtp_crypto_free(c)" >>]
              /\ inited' = FALSE
              /\ ivset' = FALSE
              /\ args' = NoArgs
              /\ UNCHANGED << cipher, icm >>
    /\ UNCHANGED << cptr, buf, enc_len, crashed, rt >>

\* ------------------------------------------------------------------------
\* srtp_aes_icm_openssl_context_init
\* ------------------------------------------------------------------------
\* the salt taken after the first 16 octets of the input whatever key_size
context_init_blocks_salt16(c, key) ==
    LET salted == CopyOctets(Zeros(V128_OCTETS), 0, key, SRTP_AES_128_KEYSIZE,
                             SRTP_SALT_SIZE)
        forced == [salted EXCEPT ![SRTP_SALT_SIZE + 1] = 0,
                                 ![SRTP_SALT_SIZE + 2] = 0]
    IN [c EXCEPT !.counter = forced, !.offset = forced]

\* counter and offset: zeroed, the salt copied in, the last two octets
\* forced to zero
context_init_blocks(c, key) ==
    LET salted == CopyOctets(Zeros(V128_OCTETS), 0, key, c.key_size,
                             SRTP_SALT_SIZE)
        forced == [salted EXCEPT ![SRTP_SALT_SIZE + 1] = 0,
                                 ![SRTP_SALT_SIZE + 2] = 0]
    IN [c EXCEPT !.counter = forced, !.offset = forced]

\* the key stored by the first context_init only, a later one keeping it
context_init_key_once(c, key) ==
    IF c.key # Zeros(KEY_OCTETS) THEN c
    ELSE LET first == CopyOctets(c.key, 0, key, 0, V128_OCTETS)
         IN [c EXCEPT !.key =
               IF c.key_size = SRTP_AES_256_KEYSIZE
                    \/ c.key_size = SRTP_AES_192_KEYSIZE
               THEN CopyOctets(first, V128_OCTETS, key, SRTP_AES_128_KEYSIZE,
                               V128_OCTETS)
               ELSE first]

\* the second half of the key copied for the 32 octet class only
context_init_key_256(c, key) ==
    LET first == CopyOctets(c.key, 0, key, 0, V128_OCTETS)
    IN [c EXCEPT !.key =
          IF c.key_size = SRTP_AES_256_KEYSIZE
          THEN CopyOctets(first, V128_OCTETS, key, SRTP_AES_128_KEYSIZE,
                          V128_OCTETS)
          ELSE first]

\* the key storage: the first 16 octets of key, and for the 24 and 32 octet
\* classes the next 16 octets into the second half
context_init_key(c, key) ==
    LET first == CopyOctets(c.key, 0, key, 0, V128_OCTETS)
    IN [c EXCEPT !.key =
          IF c.key_size = SRTP_AES_256_KEYSIZE \/ c.key_size = SRTP_AES_192_KEYSIZE
          THEN CopyOctets(first, V128_OCTETS, key, SRTP_AES_128_KEYSIZE,
                          V128_OCTETS)
          ELSE first]

\* the handle after context_init
context_init_ctx(ctx) ==
    EVP_CIPHER_CTX_cleanup(ctx)

\* the second 16 octets of the input read whatever the class
context_init_reads_32(c) ==
    {c.key_size + i : i \in 0..(SRTP_SALT_SIZE - 1)}
    \cup (0..(V128_OCTETS - 1))
    \cup (SRTP_AES_128_KEYSIZE..(SRTP_AES_128_KEYSIZE + V128_OCTETS - 1))

\* the octets of the input (indices from 0) that context_init reads: the
\* two memcpy of the salt, the copy of the first 16 octets, and for the 24
\* and 32 octet classes the copy (and the debug print) of the next 16
context_init_reads(c) ==
    {c.key_size + i : i \in 0..(SRTP_SALT_SIZE - 1)}
    \cup (0..(V128_OCTETS - 1))
    \cup (IF c.key_size = SRTP_AES_256_KEYSIZE
             \/ c.key_size = SRTP_AES_192_KEYSIZE
          THEN SRTP_AES_128_KEYSIZE..(SRTP_AES_128_KEYSIZE + V128_OCTETS - 1)
          ELSE {})

\* the octets of the context (field, index from 0) that context_init
\* stores into: both blocks are zeroed whole, then receive the salt and the
\* two forced octets; the key storage receives 16 or 32 octets
context_init_writes(c) ==
    ({"counter", "offset"} \X (0..(V128_OCTETS - 1)))
    \cup ({"counter", "offset"} \X (0..(SRTP_SALT_SIZE - 1)))
    \cup ({"counter", "offset"} \X {SRTP_SALT_SIZE, SRTP_SALT_SIZE + 1})
    \cup ({"key"} \X (0..(V128_OCTETS - 1)))
    \cup (IF c.key_size = SRTP_AES_256_KEYSIZE
             \/ c.key_size = SRTP_AES_192_KEYSIZE
          THEN {"key"} \X (V128_OCTETS..((2 * V128_OCTETS) - 1))
          ELSE {})

\* context_init(c, key) on the caller's context, key holding key_len octets
context_init(key) ==
    /\ ~ crashed
    /\ Live
    /\ LET c1 == context_init_blocks(icm, key)
           c2 == context_init_key(c1, key)
       IN
       /\ icm' = [c2 EXCEPT !.ctx = context_init_ctx(c2.ctx)]
       /\ last' = [NoCall EXCEPT !.op = "init", !.arg = key,
                                 !.status = srtp_err_status_ok,
                                 !.steps = << "EVP_CIPHER_CTX_cleanup" >>,
                                 !.haskey = (icm.key # Zeros(KEY_OCTETS)),
                                 !.num = icm.ctx.num,
                                 !.reads = context_init_reads(icm),
                                 !.writes = context_init_writes(icm)]
    /\ inited' = TRUE
    /\ ivset' = FALSE
    /\ args' = [key |-> key, iv |-> << >>, other |-> FALSE]
    /\ UNCHANGED << cptr, heap, cipher, buf, enc_len, crashed >>

srtp_aes_icm_openssl_context_init ==
    /\ \E key \in KeyArgs(cipher.key_len) : context_init(key)
    /\ UNCHANGED rt

\* ------------------------------------------------------------------------
\* srtp_aes_icm_openssl_set_iv
\* ------------------------------------------------------------------------
\* the nonce folded into the previous counter instead of the offset
set_iv_counter_prev(c, nonce) ==
    [c EXCEPT !.counter = v128_xor(c.counter, nonce)]

\* the result of the xor stored in the offset instead of the counter
set_iv_counter_offset(c, nonce) ==
    [c EXCEPT !.offset = v128_xor(c.offset, nonce)]

\* the xor followed by forcing the last two octets of the counter to zero
set_iv_counter_low_zero(c, nonce) ==
    [c EXCEPT !.counter =
        [v128_xor(c.offset, nonce) EXCEPT ![SRTP_SALT_SIZE + 1] = 0,
                                         ![SRTP_SALT_SIZE + 2] = 0]]

\* v128_xor(&c->counter, &c->offset, &nonce)
set_iv_counter(c, nonce) ==
    [c EXCEPT !.counter = v128_xor(c.offset, nonce)]

\* the switch on key_size
set_iv_evp(key_size) ==
    CASE key_size = SRTP_AES_256_KEYSIZE -> "EVP_aes_256_ctr"
      [] key_size = SRTP_AES_192_KEYSIZE -> "EVP_aes_192_ctr"
      [] key_size = SRTP_AES_128_KEYSIZE -> "EVP_aes_128_ctr"
      [] OTHER -> NULL

\* the primitive handed the offset block instead of the counter block
set_iv_seed_offset(c) ==
    [evp |-> set_iv_evp(c.key_size), key |-> c.key, iv |-> c.offset]

\* the arguments handed to EVP_EncryptInit_ex
set_iv_seed(c) ==
    [evp |-> set_iv_evp(c.key_size), key |-> c.key, iv |-> c.counter]

\* the result of EVP_EncryptInit_ex reported with the status encrypt uses
set_iv_status_cipher_fail(initok) ==
    IF ~ initok THEN srtp_err_status_cipher_fail ELSE srtp_err_status_ok

\* the status returned after EVP_EncryptInit_ex
set_iv_status(initok) ==
    IF ~ initok THEN srtp_err_status_fail ELSE srtp_err_status_ok

\* set_iv(c, iv, dir); initok tells whether EVP_EncryptInit_ex succeeds
set_iv(iv, dir, initok) ==
    /\ ~ crashed
    /\ Live
    /\ LET c1   == set_iv_counter(icm, iv)
           call == [NoCall EXCEPT !.op = "set_iv", !.arg = iv, !.dir = dir]
       IN
       IF set_iv_evp(c1.key_size) = NULL
       THEN /\ icm' = c1
            /\ last' = [call EXCEPT !.status = srtp_err_status_bad_param]
            /\ UNCHANGED ivset
       ELSE LET seed == set_iv_seed(c1) IN
            /\ icm' = [c1 EXCEPT !.ctx = EVP_EncryptInit_ex(c1.ctx, seed.evp,
                                            seed.key, seed.iv, initok)]
            /\ last' = [call EXCEPT !.status = set_iv_status(initok),
                                    !.seed = seed,
                                    !.failed = IF initok THEN "none"
                                               ELSE "init",
                                    !.steps = << "EVP_EncryptInit_ex" >>]
            /\ ivset' = (ivset \/ initok)
    /\ args' = [args EXCEPT !.iv = iv,
                            !.other = (args.other
                                         \/ (args.iv # << >> /\ args.iv # iv))]
    /\ UNCHANGED << cptr, heap, cipher, buf, enc_len, inited, crashed >>

srtp_aes_icm_openssl_set_iv ==
    /\ \E iv \in IvArgs, dir \in DirArgs, initok \in BOOLEAN :
         set_iv(iv, dir, initok)
    /\ UNCHANGED rt

\* ------------------------------------------------------------------------
\* srtp_aes_icm_openssl_encrypt (the encrypt and the decrypt entry)
\* ------------------------------------------------------------------------
\* *enc_len assigned the final length instead of being increased by it
encrypt_out_len_final(ulen, flen) ==
    flen

\* *enc_len after both steps: the update length, then += the final length
encrypt_out_len(ulen, flen) ==
    ulen + flen

\* the statuses of the two failure returns and of the final return
encrypt_status(uok, fok) ==
    IF ~ uok THEN srtp_err_status_cipher_fail
    ELSE IF ~ fok THEN srtp_err_status_cipher_fail
    ELSE srtp_err_status_ok

\* encrypt refusing an empty buffer before it calls the primitive
encrypt_run_no_empty(c, b, inl, uok, ulen, fok, flen) ==
    IF inl = 0
    THEN [status |-> srtp_err_status_bad_param, ctx |-> c.ctx, buf |-> b,
          enc_len |-> inl, steps |-> << >>]
    ELSE IF ~ uok
    THEN [status |-> encrypt_status(uok, fok), ctx |-> c.ctx, buf |-> b,
          enc_len |-> inl, steps |-> << "EVP_EncryptUpdate" >>]
    ELSE LET u == EVP_EncryptUpdate(c.ctx, b, inl, ulen) IN
         IF ~ fok
         THEN [status |-> encrypt_status(uok, fok), ctx |-> u.ctx,
               buf |-> u.buf, enc_len |-> ulen,
               steps |-> << "EVP_EncryptUpdate", "EVP_EncryptFinal_ex" >>]
         ELSE LET f == EVP_EncryptFinal_ex(u.ctx, u.buf, flen) IN
              [status |-> encrypt_status(uok, fok), ctx |-> f.ctx,
               buf |-> f.buf, enc_len |-> encrypt_out_len(ulen, flen),
               steps |-> << "EVP_EncryptUpdate", "EVP_EncryptFinal_ex" >>]

\* encrypt(c, b, &inl) on a seeded handle: uok/ulen are the result and the
\* length of EVP_EncryptUpdate, fok/flen those of EVP_EncryptFinal_ex
encrypt_run(c, b, inl, uok, ulen, fok, flen) ==
    IF ~ uok
    THEN [status |-> encrypt_status(uok, fok), ctx |-> c.ctx, buf |-> b,
          enc_len |-> inl, steps |-> << "EVP_EncryptUpdate" >>]
    ELSE LET u == EVP_EncryptUpdate(c.ctx, b, inl, ulen) IN
         IF ~ fok
         THEN [status |-> encrypt_status(uok, fok), ctx |-> u.ctx,
               buf |-> u.buf, enc_len |-> ulen,
               steps |-> << "EVP_EncryptUpdate", "EVP_EncryptFinal_ex" >>]
         ELSE LET f == EVP_EncryptFinal_ex(u.ctx, u.buf, flen) IN
              [status |-> encrypt_status(uok, fok), ctx |-> f.ctx,
               buf |-> f.buf, enc_len |-> encrypt_out_len(ulen, flen),
               steps |-> << "EVP_EncryptUpdate", "EVP_EncryptFinal_ex" >>]

\* what a call on a handle that holds no cipher may do: EVP_EncryptUpdate
\* dereferences the null cipher of the handle, which is undefined
UndefinedOutcomes ==
    {"fault", srtp_err_status_cipher_fail, srtp_err_status_ok}

\* the stored counter block stepped on by the call, as an engine that keeps
\* its own keystream position would
encrypt_store_counter(c, ctx) ==
    [c EXCEPT !.ctx = ctx,
              !.counter = [c.counter EXCEPT
                             ![V128_OCTETS] = (c.counter[V128_OCTETS] + 1) % 256]]

\* the context after encrypt: the calls are given &c->ctx and the caller's
\* buffer and length, no other field of the context
encrypt_store(c, ctx) ==
    [c EXCEPT !.ctx = ctx]

\* encrypt(c, b, &inl) on a handle seeded by set_iv, the primitive doing o
encrypt_call(b, inl, o) ==
    /\ ~ crashed
    /\ Live
    /\ icm.ctx.cipher # NULL
    /\ LET uok  == o.uok
           ulen == o.ulen
           fok  == o.fok
           flen == o.flen
           r    == encrypt_run(icm, b, inl, uok, ulen, fok, flen)
       IN
       /\ icm' = encrypt_store(icm, r.ctx)
       /\ buf' = r.buf
       /\ enc_len' = r.enc_len
       /\ last' = [NoCall EXCEPT
                     !.op = "encrypt", !.arg = b, !.num = icm.ctx.num,
                     !.afterok = (/\ last.op = "encrypt"
                                  /\ last.status = srtp_err_status_ok
                                  /\ last.ulen = last.inl
                                  /\ ~ last.ub),
                     !.inl = inl, !.status = r.status,
                     !.steps = r.steps,
                     !.failed = IF ~ uok THEN "update"
                                ELSE IF ~ fok THEN "final"
                                ELSE "none",
                     !.ulen = IF uok THEN ulen ELSE 0,
                     !.flen = IF uok /\ fok THEN flen ELSE 0]
    /\ UNCHANGED << cptr, heap, cipher, inited, ivset, crashed, args >>

\* the call within the keystream octets explored per seeding
encrypt_seeded(b, inl, o) ==
    /\ icm.ctx.num + inl <= MaxNum
    /\ encrypt_call(b, inl, o)

\* encrypt on a handle seeded by set_iv
EncryptSeeded ==
    /\ \E b \in BufArgs, inl \in 0..BufLen :
       \E o \in PrimitiveOutcomes(inl) : encrypt_seeded(b, inl, o)
    /\ UNCHANGED rt

\* encrypt on a handle that holds no cipher: after alloc, after
\* context_init, or after a set_iv whose EVP_EncryptInit_ex failed
EncryptUnseeded ==
    /\ ~ crashed
    /\ Live
    /\ icm.ctx.cipher = NULL
    /\ \E b \in BufArgs, inl \in 0..BufLen, o \in UndefinedOutcomes :
         /\ buf' = b
         /\ enc_len' = IF o = srtp_err_status_ok THEN 0 ELSE inl
         /\ crashed' = (o = "fault")
         /\ last' = [NoCall EXCEPT
                       !.op = "encrypt", !.arg = b, !.inl = inl,
                       !.status = o, !.ub = TRUE,
                       !.steps = << "EVP_EncryptUpdate" >>]
    /\ UNCHANGED << cptr, heap, cipher, icm, inited, ivset, args, rt >>

srtp_aes_icm_openssl_encrypt ==
    EncryptSeeded \/ EncryptUnseeded

\* ------------------------------------------------------------------------
\* Specification
\* ------------------------------------------------------------------------
Next ==
    \/ srtp_aes_icm_openssl_alloc
    \/ srtp_aes_icm_openssl_dealloc
    \/ srtp_aes_icm_openssl_context_init
    \/ srtp_aes_icm_openssl_set_iv
    \/ EncryptSeeded
    \/ EncryptUnseeded

Spec ==
    Init /\ [][Next]_vars

TypeOK ==
    /\ cptr \in {"indeterminate", NULL, "cipher"}
    /\ heap \subseteq {"cipher", "icm"}
    /\ enc_len \in 0..(BufLen + 1)
    /\ Len(buf) = BufLen
    /\ Len(icm.key) = KEY_OCTETS
    /\ Len(icm.counter) = V128_OCTETS
    /\ Len(icm.offset) = V128_OCTETS
    /\ icm.ctx.num \in 0..MaxNum

\* ------------------------------------------------------------------------
\* A caller that sends one buffer through the engine and back: alloc,
\* context_init, set_iv(iv), encrypt(plaintext), set_iv(iv) again, then the
\* buffer it got through the encrypt or the decrypt entry of the function
\* table.  A call that fails is made again or ends the round trip.
\* ------------------------------------------------------------------------
\* the function table of a cipher type: srtp_aes_icm, srtp_aes_icm_192 and
\* srtp_aes_icm_256 hold the same eight functions and differ in the id
srtp_cipher_type(type) ==
    [alloc   |-> "srtp_aes_icm_openssl_alloc",
     dealloc |-> "srtp_aes_icm_openssl_dealloc",
     init    |-> "srtp_aes_icm_openssl_context_init",
     set_aad |-> NULL,
     encrypt |-> "srtp_aes_icm_openssl_encrypt",
     decrypt |-> "srtp_aes_icm_openssl_encrypt",
     set_iv  |-> "srtp_aes_icm_openssl_set_iv",
     get_tag |-> NULL,
     id      |-> CASE type = "srtp_aes_icm" -> "SRTP_AES_ICM"
                   [] type = "srtp_aes_icm_192" -> "SRTP_AES_192_ICM"
                   [] type = "srtp_aes_icm_256" -> "SRTP_AES_256_ICM"
                   [] OTHER -> NULL]

\* the primitive succeeded in both steps and streamed the whole input
Streamed(o, inl) ==
    o.uok /\ o.fok /\ o.ulen = inl

RT_Alloc ==
    /\ rt.step = "idle"
    /\ \E key_len \in KeyLenArgs :
       \E o \in AllocOutcomes(key_len) :
         /\ alloc(key_len, o)
         /\ rt' = IF valid_key_len(key_len) /\ o.a1 /\ o.a2
                  THEN [rt EXCEPT !.step = "allocated"]
                  ELSE rt

RT_Init ==
    /\ rt.step = "allocated"
    /\ \E key \in KeyArgs(cipher.key_len) : context_init(key)
    /\ rt' = [rt EXCEPT !.step = "keyed"]

RT_SetIv ==
    /\ rt.step = "keyed"
    /\ \E iv \in IvArgs, dir \in DirArgs, initok \in BOOLEAN :
         /\ set_iv(iv, dir, initok)
         /\ rt' = IF initok
                  THEN [rt EXCEPT !.step = "seeded", !.iv = iv]
                  ELSE rt

RT_Encrypt ==
    /\ rt.step = "seeded"
    /\ \E b \in BufArgs, inl \in 0..BufLen :
       \E o \in PrimitiveOutcomes(inl) :
         /\ srtp_cipher_type(cipher.type).encrypt
               = "srtp_aes_icm_openssl_encrypt"
         /\ encrypt_seeded(b, inl, o)
         /\ rt' = IF Streamed(o, inl)
                  THEN [rt EXCEPT !.step = "encrypted", !.plain = b,
                                  !.inl = inl]
                  ELSE [rt EXCEPT !.step = "keyed"]

RT_SetIvAgain ==
    /\ rt.step = "encrypted"
    /\ \E dir \in DirArgs, initok \in BOOLEAN :
         /\ set_iv(rt.iv, dir, initok)
         /\ rt' = IF initok THEN [rt EXCEPT !.step = "reseeded"] ELSE rt

RT_Process ==
    /\ rt.step = "reseeded"
    /\ \E entry \in {"encrypt", "decrypt"} :
       \E o \in PrimitiveOutcomes(rt.inl) :
         /\ srtp_cipher_type(cipher.type)[entry]
               = "srtp_aes_icm_openssl_encrypt"
         /\ encrypt_seeded(buf, rt.inl, o)
         /\ rt' = IF Streamed(o, rt.inl)
                  THEN [rt EXCEPT !.step = "done", !.entry = entry]
                  ELSE [rt EXCEPT !.step = "failed", !.entry = entry]

RtNext ==
    \/ RT_Alloc
    \/ RT_Init
    \/ RT_SetIv
    \/ RT_Encrypt
    \/ RT_SetIvAgain
    \/ RT_Process

RtSpec ==
    Init /\ [][RtNext]_vars

\* ------------------------------------------------------------------------
\* The known-answer test of a cipher type: alloc with the key length of the
\* test case, context_init with its key, set_iv with its nonce, encrypt of
\* its plaintext (the whole of it or a leading part).  alloc and set_iv
\* are made again when they fail; the test ends when encrypt fails.
\* ------------------------------------------------------------------------
\* octets in the plaintext of the test case
KatOctets(key_len) ==
    Len(KatPlaintext(key_len))

\* the leading parts encrypted: none of the plaintext, up to and around
\* the end of its first block, up to its last octet, the whole of it
KatLens(key_len) ==
    {0, 1, V128_OCTETS - 1, V128_OCTETS, V128_OCTETS + 1,
     KatOctets(key_len) - 1, KatOctets(key_len)}

KAT_Alloc ==
    /\ rt.step = "idle"
    /\ \E key_len \in {SRTP_AES_128_KEYSIZE_WSALT, SRTP_AES_192_KEYSIZE_WSALT,
                        SRTP_AES_256_KEYSIZE_WSALT} :
       \E o \in AllocOutcomes(key_len) :
         /\ alloc(key_len, o)
         /\ rt' = IF o.a1 /\ o.a2 THEN [rt EXCEPT !.step = "allocated"]
                  ELSE rt

KAT_Init ==
    /\ rt.step = "allocated"
    /\ context_init(KatKey(cipher.key_len))
    /\ rt' = [rt EXCEPT !.step = "keyed"]

KAT_SetIv ==
    /\ rt.step = "keyed"
    /\ \E dir \in DirArgs, initok \in BOOLEAN :
         /\ set_iv(KatNonce(cipher.key_len), dir, initok)
         /\ rt' = IF initok
                  THEN [rt EXCEPT !.step = "seeded",
                                  !.iv = KatNonce(cipher.key_len)]
                  ELSE rt

KAT_Encrypt ==
    /\ rt.step = "seeded"
    /\ \E inl \in KatLens(cipher.key_len) :
       \E o \in PrimitiveOutcomes(inl) :
         /\ encrypt_call(KatPlaintext(cipher.key_len), inl, o)
         /\ rt' = IF Streamed(o, inl)
                  THEN [rt EXCEPT !.step = "tested",
                                  !.plain = KatPlaintext(cipher.key_len),
                                  !.inl = inl]
                  ELSE [rt EXCEPT !.step = "failed"]

KatNext ==
    \/ KAT_Alloc
    \/ KAT_Init
    \/ KAT_SetIv
    \/ KAT_Encrypt

KatSpec ==
    Init /\ [][KatNext]_vars

\* ------------------------------------------------------------------------
\* Properties
\* ------------------------------------------------------------------------
ClassLens ==
    {30, 38, 46}

\* the key the primitive reads from the key storage of context c
ContextKey(c) ==
    SubSeq(c.key, 1, c.key_size)

\* C1: lifecycle ordering as a property of the returned statuses: set_iv
\* returns Ok only after context_init was called on the context, encrypt
\* returns Ok only after a set_iv succeeded with no context_init since, and
\* context_init only runs on an allocated context.
C1_LifecycleOrdering ==
    /\ (last.op = "set_iv" /\ last.status = srtp_err_status_ok) => inited
    /\ (last.op = "encrypt" /\ last.status = srtp_err_status_ok) => ivset
    /\ (last.op = "init") => ("icm" \in heap /\ cptr = "cipher")

\* C2: on an initialized context every set_iv step, whatever the counter
\* held and whatever the direction, leaves counter = offset XOR nonce over
\* all sixteen octets, leaves offset and key alone, hands the primitive the
\* key storage and that counter, and on success the handle is seeded with
\* exactly (key, counter) at keystream position 0.
C2_SetIvCounter ==
    [][(last'.op = "set_iv" /\ inited) =>
          /\ icm'.counter = v128_xor(icm.offset, last'.arg)
          /\ icm'.offset = icm.offset
          /\ icm'.key = icm.key
          /\ icm'.key_size = icm.key_size
          /\ last'.seed.key = icm.key
          /\ last'.seed.iv = icm'.counter
          /\ (last'.status = srtp_err_status_ok =>
                /\ icm'.ctx.key = ContextKey(icm)
                /\ icm'.ctx.iv = icm'.counter
                /\ icm'.ctx.num = 0)]_vars

\* a second set_iv in a row, for decryption, with a non-zero nonce on a
\* context whose counter already differed from its offset
C2_Witness ==
    /\ last.op = "set_iv"
    /\ inited
    /\ last.status = srtp_err_status_ok
    /\ last.dir = "srtp_direction_decrypt"
    /\ last.arg # Zeros(V128_OCTETS)
    /\ icm.counter # icm.offset
    /\ icm.offset # Zeros(V128_OCTETS)

\* C3: alloc with a key_len other than 30, 38, 46 returns bad_param, calls
\* srtp_crypto_alloc not once and leaves the caller's pointer and the heap
\* as they were; with 30, 38 or 46 and both allocations succeeding it
\* returns Ok.
C3_AllocKeyLen ==
    [][(last'.op = "alloc") =>
          IF last'.arg \notin ClassLens
          THEN /\ last'.status = srtp_err_status_bad_param
               /\ last'.allocs = 0
               /\ ~ last'.wrote
               /\ UNCHANGED << cptr, heap, cipher, icm >>
          ELSE /\ last'.status \in {srtp_err_status_ok,
                                    srtp_err_status_alloc_fail}
               /\ (last'.got = 2 => last'.status = srtp_err_status_ok)
               /\ (last'.status = srtp_err_status_ok =>
                     /\ heap' = {"cipher", "icm"}
                     /\ cptr' = "cipher"
                     /\ cipher'.key_len = last'.arg)]_vars

\* a rejected length, the caller's pointer still holding its earlier value
C3_Witness ==
    /\ last.op = "alloc"
    /\ last.arg \notin ClassLens
    /\ last.status = srtp_err_status_bad_param
    /\ cptr = "cipher"

\* C4: dealloc of a non-null context releases the handle, zeroizes the
\* whole context and then frees it: the block given to srtp_crypto_free
\* holds zero in every octet of key, offset and counter and in key_size.
C4_DeallocZeroizes ==
    (last.op = "dealloc" /\ last.arg # NULL) =>
        /\ last.steps = << "EVP_CIPHER_CTX_cleanup", "octet_string_set_to_zero",
                           "srtp_crypto_free(ctx)", "srtp_crypto_free(c)" >>
        /\ last.freedctx.key = Zeros(KEY_OCTETS)
        /\ last.freedctx.offset = Zeros(V128_OCTETS)
        /\ last.freedctx.counter = Zeros(V128_OCTETS)
        /\ last.freedctx.key_size = 0
        /\ last.freedctx.ctx = NullCtx
        /\ heap = {}
        /\ last.status = srtp_err_status_ok

\* a context that held a key was torn down
C4_Witness ==
    /\ last.op = "dealloc"
    /\ last.arg # NULL
    /\ last.haskey

\* C5 as stated: dealloc of a null pointer returns Ok and frees nothing.
C5_NullDeallocOk ==
    (last.op = "dealloc" /\ last.arg = NULL) =>
        /\ last.status = srtp_err_status_ok
        /\ last.steps = << >>

\* C5 amended: dealloc of a null pointer frees and changes nothing and
\* returns bad_param.
C5_NullDeallocBadParam ==
    [][(last'.op = "dealloc" /\ last'.arg = NULL) =>
          /\ last'.status = srtp_err_status_bad_param
          /\ last'.steps = << >>
          /\ UNCHANGED << cptr, heap, cipher, icm, buf, enc_len >>]_vars

\* a null pointer given to dealloc while a context is live
C5_Witness ==
    /\ last.op = "dealloc"
    /\ last.arg = NULL
    /\ Live
    /\ heap = {"cipher", "icm"}

\* C6 as stated: a failure of the primitive is reported with the one
\* status cipher_fail, by set_iv for the init step and by encrypt for the
\* update and the finalize step.
C6_OneFailureStatus ==
    (last.failed # "none" /\ inited) =>
        last.status = srtp_err_status_cipher_fail

\* C6 amended: set_iv reports a failure of the init step with the general
\* status srtp_err_status_fail; encrypt reports a failure of the update or
\* of the finalize step with srtp_err_status_cipher_fail; the two differ.
C6_FailureStatuses ==
    /\ srtp_err_status_fail # srtp_err_status_cipher_fail
    /\ (last.failed = "init") =>
          (last.op = "set_iv" /\ last.status = srtp_err_status_fail)
    /\ (last.failed \in {"update", "final"}) =>
          (last.op = "encrypt" /\ last.status = srtp_err_status_cipher_fail)
    /\ (last.op \in {"set_iv", "encrypt"} /\ ~ last.ub /\ last.failed = "none"
          /\ last.status # srtp_err_status_bad_param) =>
          last.status = srtp_err_status_ok

\* the init step failed under set_iv
C6_Witness ==
    /\ last.op = "set_iv"
    /\ last.failed = "init"
    /\ inited

\* C7 as stated: encrypt returns Ok only with an output length equal to the
\* input length: when the lengths of the update and the finalize step sum
\* to anything else it returns cipher_fail; the finalize step always
\* follows a successful update.
C7_LengthChecked ==
    (last.op = "encrypt" /\ ~ last.ub /\ inited) =>
        /\ (last.status = srtp_err_status_ok => enc_len = last.inl)
        /\ (last.failed = "none" /\ last.ulen + last.flen # last.inl) =>
              last.status = srtp_err_status_cipher_fail
        /\ (last.failed # "update") =>
              last.steps = << "EVP_EncryptUpdate", "EVP_EncryptFinal_ex" >>

\* C7 amended: encrypt compares no lengths.  It returns Ok exactly when the
\* update and the finalize step both succeed, and the length it then
\* reports is the sum of the two lengths the primitive reported, equal to
\* the input length or not; the finalize step always follows a successful
\* update and is not run after a failed one.
C7_LengthSummed ==
    (last.op = "encrypt" /\ ~ last.ub) =>
        /\ (last.status = srtp_err_status_ok) <=> (last.failed = "none")
        /\ (last.status = srtp_err_status_ok) =>
              enc_len = last.ulen + last.flen
        /\ (last.failed # "update") =>
              last.steps = << "EVP_EncryptUpdate", "EVP_EncryptFinal_ex" >>
        /\ (last.failed = "update") =>
              (last.steps = << "EVP_EncryptUpdate" >> /\ enc_len = last.inl)
        /\ (last.failed = "final") => enc_len = last.ulen

\* encrypt returned Ok with an output length other than the input length,
\* both steps having reported octets
C7_Witness ==
    /\ last.op = "encrypt"
    /\ ~ last.ub
    /\ last.status = srtp_err_status_ok
    /\ last.ulen > 0
    /\ enc_len # last.inl

\* the buffer b with its first n octets XORed with the keystream of
\* context c from keystream position from on
XorKeystream(c, b, n, from) ==
    [i \in 1..Len(b) |->
        IF i <= n
        THEN XorOctet(b[i], Keystream(ContextKey(c), c.counter, from + i - 1))
        ELSE b[i]]

\* a successful encrypt over a primitive that streamed the whole input;
\* last.num is the keystream position the call started at and last.afterok
\* tells that the call before it was such an encrypt too
StreamedOk ==
    /\ last.op = "encrypt"
    /\ ~ last.ub
    /\ last.status = srtp_err_status_ok
    /\ last.ulen = last.inl

\* C8 as stated: every successful encrypt, a second one without set_iv in
\* between included, leaves buffer[0..length) XORed with the first length
\* keystream octets generated from the counter block stored in the context.
C8_KeystreamFromCounter ==
    (StreamedOk /\ inited /\ (last.num = 0 \/ last.afterok)) =>
        buf = XorKeystream(icm, last.arg, last.inl, 0)

\* C8 amended: every successful encrypt over a streaming primitive leaves
\* buffer[0..length) XORed with length consecutive octets of the keystream
\* generated from the context's key and stored counter block (the one the
\* latest set_iv wrote), starting at the number of octets encrypted since
\* that set_iv: only the first encrypt after a set_iv starts at keystream
\* octet 0, a further one continues where the previous stopped.  Octets
\* from length on are untouched.
C8_KeystreamContinues ==
    StreamedOk =>
        /\ buf = XorKeystream(icm, last.arg, last.inl, last.num)
        /\ icm.ctx.num = last.num + last.inl
        /\ enc_len = last.inl

\* a second encrypt without set_iv in between, on an initialized context
\* whose counter differs from its offset
C8_Witness ==
    /\ StreamedOk
    /\ last.afterok
    /\ inited
    /\ last.num > 0
    /\ last.inl > 0
    /\ last.inl < BufLen
    /\ icm.counter # icm.offset

\* C9: in every state of an allocated context octets 14 and 15 of the
\* offset block are zero.
C9_OffsetLowZero ==
    Live => (icm.offset[15] = 0 /\ icm.offset[16] = 0)

\* after context_init with a non-zero salt, a set_iv whose nonce has
\* non-zero octets 14 and 15, and an encrypt
C9_Witness ==
    /\ Live
    /\ inited
    /\ last.op = "encrypt"
    /\ ~ last.ub
    /\ last.status = srtp_err_status_ok
    /\ icm.offset[14] # 0
    /\ icm.counter[15] # 0
    /\ icm.counter[16] # 0

\* C10: when alloc returns alloc_fail, whichever allocation failed, no
\* block allocated by the call is live and the caller's pointer is null.
C10_AllocFailRollback ==
    (last.op = "alloc" /\ last.status = srtp_err_status_alloc_fail) =>
        /\ heap = {}
        /\ cptr = NULL
        /\ last.got < 2

\* the second allocation failed after the first had succeeded
C10_Witness ==
    /\ last.op = "alloc"
    /\ last.status = srtp_err_status_alloc_fail
    /\ last.allocs = 2
    /\ last.got = 1

\* C11: round trip, for every class, key, salt, nonce, plaintext and
\* length: after set_iv(iv) and a successful encrypt of the plaintext,
\* set_iv with the same iv again and a successful pass of the resulting
\* buffer through the encrypt or the decrypt entry leave the original
\* plaintext in the buffer and report the same length.
C11_RoundTrip ==
    (rt.step = "done") =>
        /\ buf = rt.plain
        /\ enc_len = rt.inl
        /\ args.iv = rt.iv

\* a full buffer that came back through the decrypt entry on an AES-192
\* context, the ciphertext differing from the plaintext, the nonce non-zero
C11_Witness ==
    /\ rt.step = "done"
    /\ rt.entry = "decrypt"
    /\ rt.inl = BufLen
    /\ rt.iv # Zeros(V128_OCTETS)
    /\ rt.plain # Zeros(BufLen)
    /\ last.arg # rt.plain
    /\ cipher.key_len = SRTP_AES_192_KEYSIZE_WSALT

\* C12 as stated: after every successful set_iv, whatever the nonce, octets
\* 14 and 15 of the counter block are zero.
C12_CounterLowZero ==
    (last.op = "set_iv" /\ last.status = srtp_err_status_ok /\ inited) =>
        (icm.counter[15] = 0 /\ icm.counter[16] = 0)

\* C12 amended: it is context_init that forces octets 14 and 15 to zero, in
\* the offset and in the counter; set_iv masks nothing, so after every
\* set_iv octets 14 and 15 of the counter are octets 14 and 15 of the nonce,
\* zero exactly when the nonce has them zero.
C12_CounterLowFromNonce ==
    /\ (last.op = "init") =>
          /\ icm.counter[15] = 0 /\ icm.counter[16] = 0
          /\ icm.offset[15] = 0 /\ icm.offset[16] = 0
    /\ (last.op = "set_iv") =>
          /\ icm.counter[15] = last.arg[15]
          /\ icm.counter[16] = last.arg[16]
          /\ (icm.counter[15] = 0 /\ icm.counter[16] = 0)
                <=> (last.arg[15] = 0 /\ last.arg[16] = 0)

\* a successful set_iv on an initialized context with a nonce whose octets
\* 14 and 15 are not zero
C12_Witness ==
    /\ last.op = "set_iv"
    /\ last.status = srtp_err_status_ok
    /\ inited
    /\ last.arg[15] # 0
    /\ last.arg[16] # 0
    /\ icm.counter[15] # 0
    /\ icm.counter[16] # 0

\* the offset, the key and the counter block as functions of the arguments
\* alone: k is the key followed by the 14 salt octets, iv the nonce
RefOffset(k) ==
    [i \in 1..V128_OCTETS |->
        IF i <= SRTP_SALT_SIZE THEN k[(Len(k) - SRTP_SALT_SIZE) + i] ELSE 0]

RefKey(k) ==
    SubSeq(k, 1, Len(k) - SRTP_SALT_SIZE)

RefCounter(k, iv) ==
    v128_xor(RefOffset(k), iv)

\* the buffer b with its first n octets XORed with the keystream of
\* (k, iv) from keystream position from on
RefOutput(k, iv, b, n, from) ==
    [i \in 1..Len(b) |->
        IF i <= n
        THEN XorOctet(b[i], Keystream(RefKey(k), RefCounter(k, iv),
                                      from + i - 1))
        ELSE b[i]]

\* C13: on an initialized context the counter after set_iv, the seed of the
\* primitive and the output of every successful encrypt are functions of
\* the key+salt given to the latest context_init, of the nonce given to
\* the latest set_iv, of the input and of the number of octets encrypted
\* since that set_iv, and of nothing else: any two contexts given the same
\* arguments produce the same output, whatever calls came before.
C13_HistoryIndependent ==
    /\ (inited /\ last.op = "set_iv") =>
          /\ last.arg = args.iv
          /\ icm.counter = RefCounter(args.key, args.iv)
          /\ (last.status = srtp_err_status_ok) =>
                /\ icm.ctx.key = RefKey(args.key)
                /\ icm.ctx.iv = RefCounter(args.key, args.iv)
                /\ icm.ctx.num = 0
    /\ (inited /\ StreamedOk) =>
          buf = RefOutput(args.key, args.iv, last.arg, last.inl, last.num)

\* the first encrypt after a set_iv on a context that was given another
\* nonce before, the key not the known-answer one
C13_Witness ==
    /\ inited
    /\ StreamedOk
    /\ last.num = 0
    /\ last.inl = BufLen
    /\ args.other
    /\ args.key = AltKey(SRTP_AES_128_KEYSIZE_WSALT)
    /\ args.iv # Zeros(V128_OCTETS)

\* C14: context_init(c, key) on a context of any of the three classes,
\* whatever the context held before, returns Ok and leaves offset and
\* counter equal, their octets 0..13 the salt key[key_size..key_size+13],
\* their octets 14 and 15 zero, and octets 0..key_size-1 of the key storage
\* equal to key[0..key_size-1]; key_size is not changed.
C14_ContextInit ==
    [][(last'.op = "init") =>
          /\ last'.status = srtp_err_status_ok
          /\ icm'.key_size = icm.key_size
          /\ icm.key_size \in {SRTP_AES_128_KEYSIZE, SRTP_AES_192_KEYSIZE,
                                SRTP_AES_256_KEYSIZE}
          /\ Len(last'.arg) = icm.key_size + SRTP_SALT_SIZE
          /\ icm'.offset = icm'.counter
          /\ \A i \in 1..SRTP_SALT_SIZE :
                icm'.offset[i] = last'.arg[icm.key_size + i]
          /\ icm'.offset[15] = 0
          /\ icm'.offset[16] = 0
          /\ \A i \in 1..icm.key_size : icm'.key[i] = last'.arg[i]]_vars

\* context_init on an AES-192 context that held a key already
C14_Witness ==
    /\ last.op = "init"
    /\ last.haskey
    /\ icm.key_size = SRTP_AES_192_KEYSIZE
    /\ args.key = KatKey(SRTP_AES_192_KEYSIZE_WSALT)
    /\ icm.offset[1] # 0
    /\ icm.key[SRTP_AES_192_KEYSIZE] # 0
    /\ icm.ctx = NullCtx

\* C15: every encrypt on a seeded handle, returning Ok or cipher_fail,
\* leaves counter, offset, key and key_size of the context as they were
\* (only the handle of the primitive moves); and on a context that stays
\* allocated the stored counter changes in set_iv and context_init steps
\* only.
C15_EncryptFrame ==
    [][/\ (last'.op = "encrypt" /\ ~ last'.ub) =>
             /\ icm'.counter = icm.counter
             /\ icm'.offset = icm.offset
             /\ icm'.key = icm.key
             /\ icm'.key_size = icm.key_size
       /\ (Live /\ Live' /\ icm'.counter # icm.counter) =>
             last'.op \in {"set_iv", "init"}]_vars

\* an encrypt that failed in the finalize step after the update step had
\* written output, on a context whose counter differs from its offset
C15_Witness ==
    /\ last.op = "encrypt"
    /\ ~ last.ub
    /\ last.failed = "final"
    /\ last.status = srtp_err_status_cipher_fail
    /\ last.ulen > 0
    /\ icm.ctx.num > last.num
    /\ icm.counter # icm.offset
    /\ inited

\* C16 as stated: on a context whose handle a set_iv seeded, encrypt with a
\* length of zero returns Ok, reports the length zero and leaves the buffer
\* untouched.
C16_EmptyOk ==
    (last.op = "encrypt" /\ ~ last.ub /\ inited /\ ivset /\ last.inl = 0) =>
        /\ last.status = srtp_err_status_ok
        /\ enc_len = 0
        /\ buf = last.arg

\* C16 amended: encrypt has no path of its own for a length of zero: it
\* calls the update and the finalize step as for any other length.  The
\* reported length is zero and the buffer is untouched in every case; the
\* status is Ok exactly when both steps of the primitive succeed and
\* cipher_fail when one of them fails.
C16_EmptyThroughPrimitive ==
    (last.op = "encrypt" /\ ~ last.ub /\ last.inl = 0) =>
        /\ enc_len = 0
        /\ buf = last.arg
        /\ icm.ctx.num = last.num
        /\ Len(last.steps) >= 1
        /\ last.steps[1] = "EVP_EncryptUpdate"
        /\ (last.failed = "none") <=> (last.status = srtp_err_status_ok)
        /\ (last.failed # "none") =>
              last.status = srtp_err_status_cipher_fail

\* a successful encrypt of length zero over a non-zero buffer, in the
\* middle of a keystream, on an initialized context
C16_Witness ==
    /\ last.op = "encrypt"
    /\ ~ last.ub
    /\ inited
    /\ last.inl = 0
    /\ last.status = srtp_err_status_ok
    /\ last.arg # Zeros(BufLen)
    /\ last.num > 0

\* the AES variant of the class of a key+salt length
ClassVariant(key_len) ==
    CASE key_len = 30 -> "EVP_aes_128_ctr"
      [] key_len = 38 -> "EVP_aes_192_ctr"
      [] key_len = 46 -> "EVP_aes_256_ctr"
      [] OTHER -> NULL

\* C18: in every state of a context returned by a successful alloc
\* key_size is 16, 24 or 32 and is the allocated key+salt length minus 14;
\* no context_init, set_iv or encrypt step changes it; set_iv never returns
\* bad_param on such a context and hands the primitive the AES variant of
\* the class chosen at allocation, which a successful set_iv leaves in the
\* handle with a key of key_size octets.
C18_KeySizeClass ==
    [][/\ Live' =>
             /\ icm'.key_size \in {16, 24, 32}
             /\ cipher'.key_len \in {30, 38, 46}
             /\ icm'.key_size = cipher'.key_len - 14
       /\ (last'.op \in {"init", "set_iv", "encrypt"}) =>
             /\ icm'.key_size = icm.key_size
             /\ cipher'.key_len = cipher.key_len
       /\ (last'.op = "set_iv") =>
             /\ last'.status # srtp_err_status_bad_param
             /\ last'.seed.evp = ClassVariant(cipher.key_len)
             /\ (last'.status = srtp_err_status_ok) =>
                   /\ icm'.ctx.cipher = ClassVariant(cipher.key_len)
                   /\ Len(icm'.ctx.key) = icm.key_size]_vars

\* a successful set_iv on an initialized AES-192 context that was given
\* another nonce before
C18_Witness ==
    /\ last.op = "set_iv"
    /\ last.status = srtp_err_status_ok
    /\ inited
    /\ args.other
    /\ cipher.key_len = 38
    /\ icm.key_size = 24
    /\ icm.ctx.cipher = "EVP_aes_192_ctr"

\* the octets of the context inside its key storage and its two blocks
ContextOctets ==
    ({"key"} \X (0..31)) \cup ({"counter", "offset"} \X (0..15))

\* what C19 says of one context_init step apart from the handle: the input
\* holds exactly key_size + 14 octets and is read below that index only;
\* the stores go to octets of the key storage and of the two blocks; an
\* octet of these that changes is among the stores; key_size, the
\* srtp_cipher_t and the caller's buffer are not written
InitFootprint ==
    /\ Len(last'.arg) = icm.key_size + 14
    /\ icm.key_size + 14 \in {30, 38, 46}
    /\ \A i \in last'.reads : i >= 0 /\ i < icm.key_size + 14
    /\ last'.writes \subseteq ContextOctets
    /\ \A w \in ContextOctets \ last'.writes :
          icm'[w[1]][w[2] + 1] = icm[w[1]][w[2] + 1]
    /\ icm'.key_size = icm.key_size
    /\ UNCHANGED << cipher, cptr, heap, buf, enc_len >>

\* C19 as stated: context_init reads the input below index key_size + 14
\* only and writes only inside the 32-octet key storage and the two
\* 16-octet blocks of the context.
C19_InitBounds ==
    [][(last'.op = "init") =>
          /\ InitFootprint
          /\ icm'.ctx = icm.ctx]_vars

\* C19 amended: context_init reads the input below index key_size + 14
\* only, and writes inside the context only: the 32-octet key storage, the
\* two 16-octet blocks, and the embedded handle of the primitive, which it
\* releases with EVP_CIPHER_CTX_cleanup.
C19_InitFootprint ==
    [][(last'.op = "init") =>
          /\ InitFootprint
          /\ icm'.ctx = NullCtx
          /\ last'.steps = << "EVP_CIPHER_CTX_cleanup" >>]_vars

\* context_init on an AES-128 context whose handle was seeded and used:
\* every octet of the 30-octet input is read
C19_Witness ==
    /\ last.op = "init"
    /\ last.num > 0
    /\ last.haskey
    /\ icm.key_size = 16
    /\ last.reads = 0..29
    /\ icm.ctx = NullCtx

\* C17: for each of the three classes, alloc with the key length of the
\* known-answer case, context_init with its key and salt, set_iv with its
\* nonce and a successful encrypt of its 32-octet plaintext leave exactly
\* its expected 32-octet ciphertext in the buffer; an encrypt of the first
\* n octets leaves the first n octets of that ciphertext.
C17_KnownAnswer ==
    (rt.step = "tested") =>
        /\ last.status = srtp_err_status_ok
        /\ enc_len = rt.inl
        /\ Len(KatCiphertext(cipher.key_len)) = KatOctets(cipher.key_len)
        /\ buf = SubSeq(KatCiphertext(cipher.key_len), 1, rt.inl)
                   \o SubSeq(rt.plain, rt.inl + 1, KatOctets(cipher.key_len))

\* the whole plaintext of the AES-192 case encrypted
C17_Witness ==
    /\ rt.step = "tested"
    /\ rt.inl = KatOctets(cipher.key_len)
    /\ cipher.key_len = SRTP_AES_192_KEYSIZE_WSALT
    /\ icm.key_size = SRTP_AES_192_KEYSIZE
    /\ icm.ctx.num = rt.inl
    /\ buf # rt.plain

====
